---- MODULE Spec2Model ----
(***************************************************************************)
(* The SAP integration dashboard: the client-side access layer             *)
(* (services/apiService.js) and the React components that call it          *)
(* (App, components/Dashboard.jsx).                                        *)
(*                                                                         *)
(* JavaScript runs one task at a time; an async function is suspended      *)
(* only at an await.  Every action below is one task: a user event or the  *)
(* settling of one network promise, together with everything the awaiting  *)
(* code does until it awaits again or returns.                             *)
(*                                                                         *)
(* Of App, the model keeps the loading gate and the view switch, which     *)
(* mount and unmount Dashboard; healthStatus and the HealthStatus view are *)
(* only rendered and are left out.                                         *)
(*                                                                         *)
(* A call of the access layer lives in a slot of `calls'.  A slot whose    *)
(* call has returned keeps the call's record until a later call takes the  *)
(* slot, so MaxCalls bounds the calls in flight, not the calls ever made.  *)
(***************************************************************************)
EXTENDS FiniteSets, Integers, Sequences, TLC

VARIABLES
    calls,          \* slot -> the record of the access-layer call in it
    appLoading,     \* App: const [loading, setLoading] = useState(true)
    currentView,    \* App: const [currentView, ...] = useState('dashboard')
    transactions,   \* Dashboard: useState([])
    loading,        \* Dashboard: useState(true)
    processing      \* Dashboard: useState(false)

vars == <<calls, appLoading, currentView, transactions, loading, processing>>
ui == <<appLoading, currentView, transactions, loading, processing>>

\* ------------------------------------------------------------------ bounds
MaxCalls == 2
Slots == 1..MaxCalls

\* ------------------------------------------------------------ JSON values
\* A JSON object is a record; the JSON value null is the record JsonNull.
JsonNull == [jsonNull |-> TRUE]
NoValue == [noValue |-> TRUE]

IsNull(v) == v = JsonNull
HasField(v, f) == f \in DOMAIN v

\* The bodies the remote service may answer with.
JsonValues ==
    { [status |-> "success"],
      [status |-> "error", message |-> "no input files"],
      [transactions |-> <<"tx1">>],
      [transactions |-> <<"tx2", "tx1">>],
      JsonNull }

\* What the transport may do to a request.
Statuses == {200, 500}
NetFaults == {"Failed to fetch"}
ParseFaults == {"Unexpected token < in JSON"}

\* --------------------------------------------------------- the operations
Ops == {"getHealth", "getTransactions", "getDatabaseStatus", "triggerProcessing", "getEnvironment"}

\* The argument of a call: absent (undefined), or a number.  A method that
\* declares no parameter ignores an argument; triggerProcessing is tried so.
NoArg == [given |-> FALSE, n |-> 0]
Limit(n) == [given |-> TRUE, n |-> n]
Limits == {0, 10}
ArgsOf(op) ==
    IF op = "getTransactions" THEN {NoArg} \cup {Limit(n) : n \in Limits}
    ELSE IF op = "triggerProcessing" THEN {NoArg, Limit(10)}
    ELSE {NoArg}

API_BASE == "https://app-sap-integration-api-h7hwc9fwaugghnce.germanywestcentral-01.azurewebsites.net"

\* `${limit}`: a number in a template literal is written in decimal.
RECURSIVE NumberToString(_)
NumberToString(n) == IF n < 10 THEN <<n>> ELSE Append(NumberToString(n \div 10), n % 10)

\* getTransactions(limit = 100): the default applies to an absent argument only.
DefaultLimit == 100
LimitZeroIsDefault(arg) == IF arg.given /\ arg.n # 0 THEN arg.n ELSE DefaultLimit
LimitOf(arg) == IF arg.given THEN arg.n ELSE DefaultLimit

\* The request fetch() is called with.
RequestFor(op, arg) ==
    CASE op = "getHealth" ->
            [method |-> "GET", base |-> API_BASE, path |-> "/api/health",
             limit |-> <<>>, headers |-> {}]
      [] op = "getTransactions" ->
            [method |-> "GET", base |-> API_BASE, path |-> "/api/transactions-raw",
             limit |-> NumberToString(LimitOf(arg)), headers |-> {}]
      [] op = "getDatabaseStatus" ->
            [method |-> "GET", base |-> API_BASE, path |-> "/api/database-test",
             limit |-> <<>>, headers |-> {}]
      [] op = "triggerProcessing" ->
            [method |-> "POST", base |-> API_BASE, path |-> "/api/process",
             limit |-> <<>>, headers |-> {<<"Content-Type", "application/json">>}]
      [] op = "getEnvironment" ->
            [method |-> "GET", base |-> API_BASE, path |-> "/api/environment",
             limit |-> <<>>, headers |-> {}]

\* The value each operation's catch block returns.
Fallback(op, message) ==
    CASE op = "getHealth" -> [status |-> "error", message |-> message]
      [] op = "getTransactions" -> [transactions |-> <<>>, error |-> message]
      [] op = "getDatabaseStatus" -> [connection_test |-> FALSE, error |-> message]
      [] op = "triggerProcessing" -> [status |-> "error", message |-> message]
      [] op = "getEnvironment" -> [error |-> message]

\* -------------------------------------------------- one call, step by step
\* pc:       "idle" | "awaitFetch" | "awaitJson" | "done"
\* origin:   who called: "direct", or the component handler that awaits it
\* stale:    the component that called has been unmounted since
\* latest:   the call is the load the mounted Dashboard issued last
\* requests: the requests the call has handed to fetch(), in order
\* status:   the status of the response the call holds while it reads the body
\* frame:    the locals of the handler that awaits the call
\* outcome, fault, body: what the transport did (recorded for the properties)
\* result, raised: how the call returned to its caller
IdleCall ==
    [pc |-> "idle", op |-> "none", arg |-> NoArg, origin |-> "none", stale |-> FALSE,
     latest |-> FALSE, requests |-> <<>>, status |-> 0, outcome |-> "pending",
     fault |-> "", body |-> NoValue, result |-> NoValue, raised |-> FALSE,
     frame |-> NoValue]

\* The operation is entered: try { const response = await fetch(...)
Invoke(op, arg, origin) ==
    [IdleCall EXCEPT !.pc = "awaitFetch", !.op = op, !.arg = arg, !.origin = origin,
                     !.requests = <<RequestFor(op, arg)>>]

\* fetch() resolved: return await response.json()
FetchResolved(call, status) ==
    [call EXCEPT !.pc = "awaitJson", !.status = status]

\* A bug that repeats the request after a failure.
FetchRejectedRetry(call, message) ==
    IF Len(call.requests) < 2
    THEN [call EXCEPT !.requests = Append(@, RequestFor(call.op, call.arg))]
    ELSE [call EXCEPT !.pc = "done", !.status = 0, !.outcome = "netfail", !.fault = message,
                      !.result = Fallback(call.op, message)]

\* fetch() rejected: catch (error) { return <fallback with error.message> }
FetchRejected(call, message) ==
    [call EXCEPT !.pc = "done", !.status = 0, !.outcome = "netfail", !.fault = message,
                 !.result = Fallback(call.op, message)]

\* A bug that keeps response.json() outside the try block.
JsonRejectedUncaught(call, message) ==
    [call EXCEPT !.pc = "done", !.status = 0, !.outcome = "parsefail", !.fault = message,
                 !.raised = TRUE]

\* response.json() rejected: the same catch block
JsonRejected(call, message) ==
    [call EXCEPT !.pc = "done", !.status = 0, !.outcome = "parsefail", !.fault = message,
                 !.result = Fallback(call.op, message)]

\* A bug that lays the parsed body over the fallback shape.
JsonResolvedOverFallback(call, body) ==
    [call EXCEPT !.pc = "done", !.status = 0, !.outcome = "ok", !.body = body,
                 !.result = IF IsNull(body) THEN body
                            ELSE [f \in DOMAIN body \cup DOMAIN Fallback(call.op, "") |->
                                    IF f \in DOMAIN body THEN body[f]
                                    ELSE Fallback(call.op, "")[f]]]

\* A bug that keeps the last parsed body in a field of the shared service
\* object and returns whatever that field holds.
JsonResolvedShared(call, body) ==
    LET others == {d \in Slots : calls[d].pc = "done" /\ calls[d].outcome = "ok"}
    IN [call EXCEPT !.pc = "done", !.status = 0, !.outcome = "ok", !.body = body,
                    !.result = IF others = {} THEN body
                               ELSE calls[CHOOSE d \in others : TRUE].body]

\* response.json() resolved: the parsed body is returned
JsonResolved(call, body) ==
    [call EXCEPT !.pc = "done", !.status = 0, !.outcome = "ok", !.body = body, !.result = body]

InFlight(call) == call.pc \in {"awaitFetch", "awaitJson"}
FreeSlots(cs) == {c \in Slots : ~InFlight(cs[c])}
FreeSlot(cs) == CHOOSE c \in FreeSlots(cs) : \A d \in FreeSlots(cs) : c <= d

\* -------------------------------------------------------------- Dashboard
\* The state of the mounted Dashboard, as one value.  React keeps a
\* component's state from its mount to its unmount; while no Dashboard is
\* mounted the three variables hold the useState initial values, which are
\* the values the next mount starts from.
dashboard == [transactions |-> transactions, loading |-> loading, processing |-> processing]
InitialDashboard == [transactions |-> <<>>, loading |-> TRUE, processing |-> FALSE]

Mounted == ~appLoading /\ currentView = "dashboard"

\* data.transactions || []   (an array, even an empty one, is truthy)
TransactionsOrEmpty(data) ==
    IF HasField(data, "transactions") THEN data.transactions ELSE <<>>

\* A bug that never raises the loading flag.
loadTransactionsEnteredSilently(d) == d

\* loadTransactions, up to its await: setLoading(true)
loadTransactionsEntered(d) == [d EXCEPT !.loading = TRUE]

\* A bug that leaves out the `|| []'.
loadTransactionsResumedNoDefault(d, call) ==
    [d EXCEPT !.transactions = IF call.raised \/ IsNull(call.result)
                                  \/ ~HasField(call.result, "transactions")
                               THEN @ ELSE call.result.transactions,
              !.loading = FALSE]

\* A variant that drops the response of every load but the one issued last.
loadTransactionsResumedLatestOnly(d, call) ==
    [d EXCEPT !.transactions = IF call.raised \/ IsNull(call.result) \/ ~call.latest
                               THEN @ ELSE TransactionsOrEmpty(call.result),
              !.loading = FALSE]

\* loadTransactions, from its await on: setTransactions(data.transactions || []),
\* which throws on a null data and is caught, then finally setLoading(false)
loadTransactionsResumed(d, call) ==
    [d EXCEPT !.transactions = IF call.raised \/ IsNull(call.result)
                               THEN @ ELSE TransactionsOrEmpty(call.result),
              !.loading = FALSE]

\* A bug that never raises the processing flag.
handleTriggerProcessingEnteredSilently(d) == d

\* handleTriggerProcessing, up to its first await: setProcessing(true)
handleTriggerProcessingEntered(d) == [d EXCEPT !.processing = TRUE]

\* result.status === 'success'   (reading a field of null throws, and is caught)
TriggerSucceeded(call) ==
    /\ ~call.raised
    /\ ~IsNull(call.result)
    /\ HasField(call.result, "status")
    /\ call.result.status = "success"

\* handleTriggerProcessing: finally { setProcessing(false) }
handleTriggerProcessingFinally(d) == [d EXCEPT !.processing = FALSE]

\* A state setter of an unmounted component changes nothing.
SetState(call, d) ==
    /\ transactions' = IF call.stale THEN transactions ELSE d.transactions
    /\ loading' = IF call.stale THEN loading ELSE d.loading
    /\ processing' = IF call.stale THEN processing ELSE d.processing

\* apiService.getTransactions(10), called by loadTransactions for `origin'.
\* A load issued by the mounted Dashboard becomes its latest load.
IssueLoad(cs, origin, stale, frame) ==
    LET c == FreeSlot(cs)
        old == IF stale THEN cs ELSE [d \in Slots |-> [cs[d] EXCEPT !.latest = FALSE]]
    IN [old EXCEPT ![c] = [Invoke("getTransactions", Limit(10), origin)
                             EXCEPT !.stale = stale, !.latest = ~stale, !.frame = frame]]

\* ------------------------------------------------- what resumes on a return
\* The call returned to a caller outside the components.
ReturnToCaller(c, call) ==
    /\ calls' = [calls EXCEPT ![c] = call]
    /\ UNCHANGED ui

\* App.loadInitialData resumes: setHealthStatus(health), finally
\* setLoading(false).  App then renders its views; with currentView
\* 'dashboard' a Dashboard mounts and its effect calls loadTransactions.
\* (healthStatus is only rendered and is not kept in the model.)
loadInitialDataResumed(c, call) ==
    /\ appLoading' = FALSE
    /\ UNCHANGED currentView
    /\ IF appLoading /\ currentView = "dashboard"
       THEN /\ calls' = IssueLoad([calls EXCEPT ![c] = call], "loadTransactions", FALSE, NoValue)
            /\ transactions' = <<>>
            /\ loading' = TRUE
            /\ processing' = FALSE
       ELSE /\ calls' = [calls EXCEPT ![c] = call]
            /\ UNCHANGED <<transactions, loading, processing>>

\* Dashboard.loadTransactions resumes, called by the effect or by Refresh.
loadResumed(c, call) ==
    /\ calls' = [calls EXCEPT ![c] = call]
    /\ SetState(call, loadTransactionsResumed(dashboard, call))
    /\ UNCHANGED <<appLoading, currentView>>

\* Dashboard.handleTriggerProcessing resumes with the trigger's result: on
\* success it calls loadTransactions and awaits it, otherwise it finishes.
triggerResumed(c, call) ==
    /\ IF TriggerSucceeded(call)
       THEN /\ calls' = IssueLoad([calls EXCEPT ![c] = call], "reload", call.stale,
                                  call.result)
            /\ SetState(call, loadTransactionsEntered(dashboard))
       ELSE /\ calls' = [calls EXCEPT ![c] = call]
            /\ SetState(call, handleTriggerProcessingFinally(dashboard))
    /\ UNCHANGED <<appLoading, currentView>>

\* The awaited loadTransactions resumes and returns; handleTriggerProcessing
\* resumes in turn and finishes.
reloadResumed(c, call) ==
    /\ calls' = [calls EXCEPT ![c] = call]
    /\ SetState(call, handleTriggerProcessingFinally(
                          loadTransactionsResumed(dashboard, call)))
    /\ UNCHANGED <<appLoading, currentView>>

\* The call in slot c becomes `call'; if it returned, its caller resumes.
Resume(c, call) ==
    IF call.pc # "done" \/ call.origin = "direct" THEN ReturnToCaller(c, call)
    ELSE IF call.origin = "loadInitialData" THEN loadInitialDataResumed(c, call)
    ELSE IF call.origin = "loadTransactions" THEN loadResumed(c, call)
    ELSE IF call.origin = "handleTriggerProcessing" THEN triggerResumed(c, call)
    ELSE reloadResumed(c, call)

\* ------------------------------------------------------------ the transport
\* The promise of fetch() settles.
FetchSettles(c) ==
    /\ calls[c].pc = "awaitFetch"
    /\ \/ \E status \in Statuses : Resume(c, FetchResolved(calls[c], status))
       \/ \E message \in NetFaults : Resume(c, FetchRejected(calls[c], message))

\* The promise of response.json() settles.
JsonSettles(c) ==
    /\ calls[c].pc = "awaitJson"
    /\ \/ \E body \in JsonValues : Resume(c, JsonResolved(calls[c], body))
       \/ \E message \in ParseFaults : Resume(c, JsonRejected(calls[c], message))

\* ------------------------------------------------------------ access layer
\* The module is loaded and the service object exported; nothing is rendered.
InitApi ==
    /\ calls = [c \in Slots |-> IdleCall]
    /\ appLoading = TRUE
    /\ currentView = "dashboard"
    /\ transactions = <<>>
    /\ loading = TRUE
    /\ processing = FALSE

\* Any caller of the exported service object calls one of its methods.
Call(op, arg) ==
    /\ FreeSlots(calls) # {}
    /\ calls' = [calls EXCEPT ![FreeSlot(calls)] = Invoke(op, arg, "direct")]
    /\ UNCHANGED ui

NextApi ==
    \/ \E op \in Ops : \E arg \in ArgsOf(op) : Call(op, arg)
    \/ \E c \in Slots : FetchSettles(c)
    \/ \E c \in Slots : JsonSettles(c)

SpecApi == InitApi /\ [][NextApi]_vars

\* ------------------------------------------------------------------ the app
\* App has mounted and its effect has called loadInitialData, which awaits
\* apiService.getHealth(); App renders the loading screen.
Init ==
    /\ calls = [c \in Slots |-> IF c = 1 THEN Invoke("getHealth", NoArg, "loadInitialData")
                                ELSE IdleCall]
    /\ appLoading = TRUE
    /\ currentView = "dashboard"
    /\ transactions = <<>>
    /\ loading = TRUE
    /\ processing = FALSE

\* The Refresh button: onClick={loadTransactions}
ClickRefresh ==
    /\ Mounted
    /\ FreeSlots(calls) # {}
    /\ calls' = IssueLoad(calls, "loadTransactions", FALSE, NoValue)
    /\ SetState(IdleCall, loadTransactionsEntered(dashboard))
    /\ UNCHANGED <<appLoading, currentView>>

\* The Trigger Processing button: onClick={handleTriggerProcessing},
\* disabled={processing}
ClickTriggerProcessing ==
    /\ Mounted
    /\ ~processing
    /\ FreeSlots(calls) # {}
    /\ calls' = [calls EXCEPT ![FreeSlot(calls)] =
                    Invoke("triggerProcessing", NoArg, "handleTriggerProcessing")]
    /\ SetState(IdleCall, handleTriggerProcessingEntered(dashboard))
    /\ UNCHANGED <<appLoading, currentView>>

\* The System Health button: setCurrentView('health').  App stops rendering
\* Dashboard, which unmounts; what its handlers still await goes on without it.
ClickSystemHealth ==
    /\ Mounted
    /\ currentView' = "health"
    /\ calls' = [c \in Slots |->
                    IF calls[c].origin \in {"loadTransactions", "handleTriggerProcessing", "reload"}
                    THEN [calls[c] EXCEPT !.stale = TRUE, !.latest = FALSE]
                    ELSE calls[c]]
    /\ transactions' = InitialDashboard.transactions
    /\ loading' = InitialDashboard.loading
    /\ processing' = InitialDashboard.processing
    /\ UNCHANGED appLoading

\* The Dashboard button: setCurrentView('dashboard').  App renders a new
\* Dashboard, whose effect calls loadTransactions.
ClickDashboard ==
    /\ ~appLoading
    /\ currentView = "health"
    /\ FreeSlots(calls) # {}
    /\ currentView' = "dashboard"
    /\ calls' = IssueLoad(calls, "loadTransactions", FALSE, NoValue)
    /\ transactions' = InitialDashboard.transactions
    /\ loading' = loadTransactionsEntered(InitialDashboard).loading
    /\ processing' = InitialDashboard.processing
    /\ UNCHANGED appLoading

Next ==
    \/ \E c \in Slots : FetchSettles(c)
    \/ \E c \in Slots : JsonSettles(c)
    \/ ClickRefresh
    \/ ClickTriggerProcessing
    \/ ClickSystemHealth
    \/ ClickDashboard

Spec == Init /\ [][Next]_vars

\* =============================================================== properties
Done(c) == calls[c].pc = "done"
Failed(c) == Done(c) /\ calls[c].outcome \in {"netfail", "parsefail"}

\* The fallback shapes as the design documents them.
DocumentedFallback(op, description) ==
    CASE op \in {"getHealth", "triggerProcessing"} -> [status |-> "error", message |-> description]
      [] op = "getTransactions" -> [transactions |-> <<>>, error |-> description]
      [] op = "getDatabaseStatus" -> [connection_test |-> FALSE, error |-> description]
      [] op = "getEnvironment" -> [error |-> description]

\* C1: whenever the transport call fails or the body fails to parse, the
\* operation returns normally, and returns exactly its documented fallback
\* mapping carrying the fault's description; no operation ever raises.
C1_FallbackOnFailure ==
    \A c \in Slots :
        /\ ~calls[c].raised
        /\ Failed(c) => calls[c].result = DocumentedFallback(calls[c].op, calls[c].fault)

C1_Witness ==
    /\ \E c \in Slots : Failed(c) /\ calls[c].outcome = "parsefail"
                          /\ calls[c].op = "getDatabaseStatus"
    /\ \E c \in Slots : Failed(c) /\ calls[c].outcome = "netfail"
                          /\ calls[c].op = "getTransactions"

\* C2: when the transport call succeeds with a JSON body, the operation
\* returns that body unchanged: nothing added, removed, altered or mixed in.
C2_BodyPassedThrough ==
    \A c \in Slots :
        (Done(c) /\ calls[c].outcome = "ok") =>
            (~calls[c].raised /\ calls[c].result = calls[c].body)

C2_Witness ==
    \E c \in Slots : /\ Done(c) /\ calls[c].outcome = "ok"
                     /\ calls[c].op = "getHealth"
                     /\ calls[c].result = [status |-> "success"]

\* C3: a response with a non-success status yields the operation's fallback
\* shape, as a network failure or a parse failure does.
C3_NonSuccessStatusIsFailure ==
    [][\A c \in Slots :
          (/\ calls[c].pc = "awaitJson"
           /\ calls[c].status \notin 200..299
           /\ calls'[c].pc = "done")
          => \E description \in NetFaults \cup ParseFaults :
                calls'[c].result = DocumentedFallback(calls[c].op, description)]_vars

\* C4: every invocation issues exactly one network request over its whole
\* lifetime: none completes without one, and a failure is never retried.
C4_ExactlyOneRequest ==
    \A c \in Slots : calls[c].pc # "idle" => Len(calls[c].requests) = 1

C4_Witness ==
    /\ \E c \in Slots : Failed(c) /\ Len(calls[c].requests) = 1
    /\ \E c \in Slots : Done(c) /\ calls[c].outcome = "ok" /\ Len(calls[c].requests) = 1

\* The number a decimal numeral denotes.
RECURSIVE DecimalValue(_)
DecimalValue(digits) ==
    IF digits = <<>> THEN 0
    ELSE 10 * DecimalValue(SubSeq(digits, 1, Len(digits) - 1)) + digits[Len(digits)]

JsonHeader == {<<"Content-Type", "application/json">>}

\* C5: the request is a fixed function of the operation and, for
\* getTransactions, of its limit: limit=100 with no argument and limit=N,
\* exactly, with N; triggerProcessing is a POST with a JSON content-type
\* header; the other three are plain GETs of their endpoints.
C5_RequestIsFixed ==
    \A c \in Slots : calls[c].pc # "idle" =>
        LET r == calls[c].requests[1]
            op == calls[c].op
        IN /\ r.base = API_BASE
           /\ op = "getHealth" =>
                r.method = "GET" /\ r.path = "/api/health" /\ r.limit = <<>> /\ r.headers = {}
           /\ op = "getDatabaseStatus" =>
                r.method = "GET" /\ r.path = "/api/database-test" /\ r.limit = <<>> /\ r.headers = {}
           /\ op = "getEnvironment" =>
                r.method = "GET" /\ r.path = "/api/environment" /\ r.limit = <<>> /\ r.headers = {}
           /\ op = "triggerProcessing" =>
                r.method = "POST" /\ r.path = "/api/process" /\ r.limit = <<>> /\ r.headers = JsonHeader
           /\ op = "getTransactions" =>
                /\ r.method = "GET" /\ r.path = "/api/transactions-raw" /\ r.headers = {}
                /\ r.limit # <<>>
                /\ DecimalValue(r.limit) = IF calls[c].arg.given THEN calls[c].arg.n ELSE 100

C5_Witness ==
    /\ \E c \in Slots : calls[c].op = "getTransactions" /\ calls[c].arg = Limit(0)
    /\ \E c \in Slots : calls[c].op = "triggerProcessing" /\ calls[c].arg = Limit(10)

\* What a call returns when it runs alone, from its own operation and its
\* own transport outcome.
OwnResult(call) ==
    IF call.outcome = "ok" THEN call.body ELSE DocumentedFallback(call.op, call.fault)

\* C6: calls share no mutable state: with several calls in flight and their
\* responses completing in any order, the step that completes one call
\* gives it the result it would have alone and leaves every other call as
\* it was.
C6_CallsAreIndependent ==
    [][\A c \in Slots :
          (InFlight(calls[c]) /\ calls'[c] # calls[c]) =>
             /\ \A d \in Slots \ {c} : calls'[d] = calls[d]
             /\ calls'[c].op = calls[c].op /\ calls'[c].arg = calls[c].arg
             /\ calls'[c].requests = calls[c].requests
             /\ calls'[c].pc = "done" => calls'[c].result = OwnResult(calls'[c])]_vars

C6_Witness ==
    \E c, d \in Slots :
        /\ c # d
        /\ Done(c) /\ calls[c].outcome = "ok" /\ calls[c].result = [transactions |-> <<"tx1">>]
        /\ InFlight(calls[d]) /\ calls[d].op = calls[c].op

\* ---------------------------------------------------------------- Dashboard
LoadOrigins == {"loadTransactions", "reload"}
HandlerOrigins == {"handleTriggerProcessing", "reload"}

\* The slots whose call is awaited by a loadTransactions of the mounted Dashboard.
LiveLoads(cs) ==
    {c \in Slots : InFlight(cs[c]) /\ ~cs[c].stale /\ cs[c].origin \in LoadOrigins}

\* The slots whose call a handleTriggerProcessing of the mounted Dashboard
\* waits for: its trigger request, or the reload after it.
LiveHandlers(cs) ==
    {c \in Slots : InFlight(cs[c]) /\ ~cs[c].stale /\ cs[c].origin \in HandlerOrigins}

\* The slots holding a trigger request in flight, of whatever Dashboard.
Triggers(cs) == {c \in Slots : InFlight(cs[c]) /\ cs[c].op = "triggerProcessing"}
LiveTriggers(cs) == {c \in Triggers(cs) : ~cs[c].stale}

IsMapping(v) == v # NoValue /\ ~IsNull(v)
NoTransactionsShown == Mounted /\ ~loading /\ transactions = <<>>

\* getTransactions returned a mapping without a transactions field, or its
\* failure fallback.
AbsentOrFallback(call) ==
    /\ ~call.raised
    /\ IsMapping(call.result)
    /\ \/ ~HasField(call.result, "transactions")
       \/ call.outcome \in {"netfail", "parsefail"}

\* C7: whenever getTransactions returns a mapping without a transactions
\* field, or its failure fallback, loadTransactions sets transactions to the
\* empty sequence and loading to false, so 'No transactions found' is shown.
C7_AbsentFieldShowsNoTransactions ==
    [][\A c \in LiveLoads(calls) :
          (calls'[c].pc = "done" /\ AbsentOrFallback(calls'[c]))
          => (transactions' = <<>> /\ loading' = FALSE /\ NoTransactionsShown')]_vars

C7_Witness ==
    /\ NoTransactionsShown
    /\ \E c \in Slots : /\ Done(c) /\ ~calls[c].stale /\ calls[c].origin \in LoadOrigins
                        /\ AbsentOrFallback(calls[c])
                        /\ calls[c].outcome = "ok"
    /\ \E c \in Slots : /\ Done(c) /\ calls[c].origin \in LoadOrigins
                        /\ calls[c].result = [transactions |-> <<"tx1">>]

\* C8: loading is true in every state in which a loadTransactions call of
\* the Dashboard is still awaiting its response.
C8_LoadingWhileAnyLoadInFlight ==
    LiveLoads(calls) # {} => loading

\* C8, amended: loading becomes true when a load is issued and false when
\* any load completes, and changes at no other time; so it is true while a
\* load is in flight only as long as no other load has completed since.
C8_LoadingFollowsLastLoadEvent ==
    [][IF \E c \in LiveLoads(calls') : c \notin LiveLoads(calls) THEN loading'
       ELSE IF \E c \in LiveLoads(calls) : calls'[c].pc = "done" THEN ~loading'
       ELSE (Mounted /\ Mounted') => loading' = loading]_vars

C8_Witness ==
    Mounted /\ LiveLoads(calls) # {} /\ ~loading

\* The load the mounted Dashboard issued last has returned a mapping.
LatestLoadReturned(c) ==
    /\ Done(c) /\ calls[c].latest /\ ~calls[c].stale
    /\ ~calls[c].raised /\ IsMapping(calls[c].result)

C10_OneTriggerInFlight ==
    Cardinality(Triggers(calls)) <= 1

\* The result handleTriggerProcessing got from the trigger in slot c, read
\* after the step in which the trigger returned: from the slot, or, when the
\* reload took the slot, from the handler's frame.
TriggerResultAt(call) ==
    IF InFlight(call) /\ call.origin = "reload" THEN call.frame ELSE call.result

\* C10, amended: of the mounted Dashboard, at most one trigger request is in
\* flight: a trigger starts only while processing is false, processing is
\* true exactly while its handler waits for the trigger or for the reload
\* after it, and a reload is issued if and only if the trigger's result has
\* status 'success'.  (A Dashboard mounted while the trigger of an unmounted
\* one is in flight starts with processing false.)
C10_OneTriggerPerDashboard ==
    [][/\ Cardinality(LiveHandlers(calls')) <= 1
       /\ processing' = (LiveHandlers(calls') # {})
       /\ (\E c \in LiveTriggers(calls') : c \notin LiveTriggers(calls)) => ~processing
       /\ \A c \in Triggers(calls) :
             ~(InFlight(calls'[c]) /\ calls'[c].op = "triggerProcessing")
             => ((\E d \in Slots : /\ InFlight(calls'[d]) /\ calls'[d].origin = "reload"
                                   /\ ~(InFlight(calls[d]) /\ calls[d].origin = "reload"))
                 <=> (/\ IsMapping(TriggerResultAt(calls'[c]))
                      /\ HasField(TriggerResultAt(calls'[c]), "status")
                      /\ TriggerResultAt(calls'[c]).status = "success"))]_vars

C10_Witness ==
    /\ Mounted /\ processing
    /\ \E c \in LiveHandlers(calls) : calls[c].origin = "reload"
    /\ Triggers(calls) = {}
====
